---- MODULE Spec2Model ----
(***************************************************************************)
(* CleanFoam Pro (src/app.py): the worker ledger kept in the Streamlit     *)
(* session state, the fee rules, the two-phase delete dialog and the       *)
(* financial summary.                                                      *)
(*                                                                         *)
(* One action is one operator event (a form submit or a button click)      *)
(* together with the script run it triggers, up to and including the       *)
(* st.rerun() that ends it; a run without an event changes no state.       *)
(*                                                                         *)
(* Money is a whole number of 1/200 units (half a cent): the number        *)
(* inputs show two decimals and line 109 halves the total.                 *)
(***************************************************************************)
EXTENDS Integers, Sequences, FiniteSets, TLC

VARIABLES
    workers,              \* st.session_state.workers: list of dicts
    worker_id_to_delete,  \* st.session_state.worker_id_to_delete
    show_delete_dialog,   \* st.session_state.show_delete_dialog
    nextId,               \* number of uuid4 values drawn so far, plus one
    cap,                  \* uuid4 values the session may draw (fixed at the start)
    issued,               \* history: the IDs assigned so far, oldest first
    lastOp,               \* history: the operator event of the last run
    lastInput,            \* history: the form values of the last submit
    intended,             \* history: ID of the entry picked in the selector
    prevWorkers,          \* history: workers before the last run
    prevId,               \* history: worker_id_to_delete before the last run
    prevShow,             \* history: show_delete_dialog before the last run
    error,                \* the st.error message of the last run, "" if none
    fee_total,            \* compute_fee: argument total_value
    fee_custom,           \* compute_fee: argument custom_due
    fee_out               \* compute_fee: returned value, <<>> before the call

vars == <<workers, worker_id_to_delete, show_delete_dialog, nextId, cap,
          issued, lastOp, lastInput, intended, prevWorkers, prevId, prevShow, error,
          fee_total, fee_custom, fee_out>>

session == <<workers, worker_id_to_delete, show_delete_dialog, nextId, cap>>
history == <<issued, lastOp, lastInput, intended, prevWorkers, prevId, prevShow,
             error>>
feeVars == <<fee_total, fee_custom, fee_out>>

-----------------------------------------------------------------------------
(* Bounds *)

\* uuid4 values drawn in one session, hence also the longest ledger
MaxAdds == 2
\* largest whole total handed to compute_fee on its own
MaxFeeTotal == 120
\* uuid4 values drawn in a session of OrderSpec
MaxOrderAdds == 3
\* uuid4 values drawn in a session of TotalsSpec
MaxTotalsAdds == 1

-----------------------------------------------------------------------------
(* Values *)

\* a float with two decimals, as a number of 1/200 units
Money(units, hundredths) == units * 200 + hundredths * 2

\* Python None for worker_id_to_delete and custom_due
None == 0

\* the "" placeholder of the financial fields of a CF entry; a number n is <<n>>
Empty == <<>>
Num(n) == <<n>>

\* int(x) for x >= 0: truncation
IntOf(x) == x \div 200

Names == {"", " ", "Ana"}
Totals == {Money(0, 0), Money(100, 0)}
Withdrawns == {Money(0, 0), Money(60, 0)}
CustomDues == {Money(0, 0), Money(5, 0)}
Notes == {"late"}
EntryTypes == {"Standard", "CF"}

Inputs == [name: Names, total_value: Totals, withdrawn_val: Withdrawns,
           entry_type: EntryTypes, due_custom_val: CustomDues, note_text: Notes]

-----------------------------------------------------------------------------
(* Helper functions *)

\* rules.get(total_value): <<>> when the key is absent
RulesGet(total_value) ==
    CASE total_value = Money(80, 0)  -> Num(Money(20, 0))
      [] total_value = Money(90, 0)  -> Num(Money(20, 0))
      [] total_value = Money(95, 0)  -> Num(Money(22, 50))
      [] total_value = Money(100, 0) -> Num(Money(25, 0))
      [] total_value = Money(105, 0) -> Num(Money(27, 50))
      [] total_value = Money(110, 0) -> Num(Money(25, 0))
      [] OTHER -> <<>>

\* variant of compute_fee: the total is rounded, not truncated, before % 10
compute_fee_Rounds(total_value, custom_due) ==
    IF custom_due # <<>> /\ custom_due[1] > 0
    THEN custom_due[1]
    ELSE IF RulesGet(total_value) # <<>>
         THEN RulesGet(total_value)[1]
         ELSE IF IntOf(total_value + 100) % 10 = 5
              THEN Money(32, 50)
              ELSE Money(30, 0)

\* compute_fee(total_value, custom_due); custom_due is <<>> for None
compute_fee(total_value, custom_due) ==
    IF custom_due # <<>> /\ custom_due[1] > 0
    THEN custom_due[1]
    ELSE IF RulesGet(total_value) # <<>>
         THEN RulesGet(total_value)[1]
         ELSE IF IntOf(total_value) % 10 = 5
              THEN Money(32, 50)
              ELSE Money(30, 0)

\* line 108: due_custom_val if due_custom_val > 0 else None
CustomDueArg(due_custom_val) ==
    IF due_custom_val > 0 THEN Num(due_custom_val) ELSE <<>>

\* variant of RemainingOf: a negative balance is clamped to 0
RemainingOf_Clamped(total_value, withdrawn_val, fee) ==
    IF (total_value \div 2) - withdrawn_val - fee < 0
    THEN 0
    ELSE (total_value \div 2) - withdrawn_val - fee

\* line 109: (total_value / 2) - withdrawn_val - fee
RemainingOf(total_value, withdrawn_val, fee) ==
    (total_value \div 2) - withdrawn_val - fee

\* lines 101 and 102: the messages of st.error
NameRequired == "Worker name is required."
TotalRequired == "Total value must be greater than 0."

\* line 101: not name
NameMissing(name) == name = ""

\* variant of TotalRejected: only a negative total is refused
TotalRejected_Strict(total_value, entry_type) ==
    total_value < 0 /\ entry_type = "Standard"

\* variant of TotalRejected: the entry type is not looked at
TotalRejected_AnyType(total_value, entry_type) ==
    total_value <= 0

\* line 102: total_value <= 0 and entry_type == "Standard"
TotalRejected(total_value, entry_type) ==
    total_value <= 0 /\ entry_type = "Standard"

\* variant of NewWorker: a CF entry stores the withdrawn input
NewWorker_CFWithdrawn(wid, in) ==
    IF in.entry_type = "CF"
    THEN [ID |-> wid, Worker |-> in.name, Total |-> in.total_value,
          Due |-> Empty, Withdrawn |-> Num(in.withdrawn_val), Remaining |-> Empty,
          Note |-> in.note_text, EntryType |-> "CF"]
    ELSE LET fee == compute_fee(in.total_value, CustomDueArg(in.due_custom_val))
             remaining == RemainingOf(in.total_value, in.withdrawn_val, fee)
         IN [ID |-> wid, Worker |-> in.name, Total |-> in.total_value,
             Due |-> Num(fee), Withdrawn |-> Num(in.withdrawn_val),
             Remaining |-> Num(remaining),
             Note |-> in.note_text, EntryType |-> "Standard"]

\* variant of NewWorker: the custom due of the form is not handed on
NewWorker_IgnoresCustom(wid, in) ==
    IF in.entry_type = "CF"
    THEN [ID |-> wid, Worker |-> in.name, Total |-> in.total_value,
          Due |-> Empty, Withdrawn |-> Empty, Remaining |-> Empty,
          Note |-> in.note_text, EntryType |-> "CF"]
    ELSE LET fee == compute_fee(in.total_value, <<>>)
             remaining == RemainingOf(in.total_value, in.withdrawn_val, fee)
         IN [ID |-> wid, Worker |-> in.name, Total |-> in.total_value,
             Due |-> Num(fee), Withdrawn |-> Num(in.withdrawn_val),
             Remaining |-> Num(remaining),
             Note |-> in.note_text, EntryType |-> "Standard"]

\* lines 105-110: the dict built for a valid submit
NewWorker(wid, in) ==
    IF in.entry_type = "CF"
    THEN [ID |-> wid, Worker |-> in.name, Total |-> in.total_value,
          Due |-> Empty, Withdrawn |-> Empty, Remaining |-> Empty,
          Note |-> in.note_text, EntryType |-> "CF"]
    ELSE LET fee == compute_fee(in.total_value, CustomDueArg(in.due_custom_val))
             remaining == RemainingOf(in.total_value, in.withdrawn_val, fee)
         IN [ID |-> wid, Worker |-> in.name, Total |-> in.total_value,
             Due |-> Num(fee), Withdrawn |-> Num(in.withdrawn_val),
             Remaining |-> Num(remaining),
             Note |-> in.note_text, EntryType |-> "Standard"]

\* line 61: next((w for w in workers if w['ID'] == worker_id_to_delete), None)
WorkerToDelete(ws, id) == {i \in 1..Len(ws) : ws[i].ID = id}

\* lines 60-64: the confirmation dialog is rendered by the run
DialogOpen ==
    /\ show_delete_dialog
    /\ worker_id_to_delete # None
    /\ WorkerToDelete(workers, worker_id_to_delete) # {}

\* variant of WithoutId: the filter compares the worker's name, not the ID
WithoutId_ByName(ws, id) ==
    LET gone == {ws[i].Worker : i \in WorkerToDelete(ws, id)}
    IN SelectSeq(ws, LAMBDA w : w.Worker \notin gone)

\* variant of WithoutId: the id is used as the position of the entry
WithoutId_ByIndex(ws, id) ==
    IF id \in 1..Len(ws)
    THEN [j \in 1..(Len(ws) - 1) |-> ws[IF j < id THEN j ELSE j + 1]]
    ELSE ws

\* line 69: [w for w in workers if w['ID'] != worker_id_to_delete]
WithoutId(ws, id) == SelectSeq(ws, LAMBDA w : w.ID # id)

\* line 133: the label of an entry in the selector, f"{Worker} (Total: {Total})"
Label(w) == <<w.Worker, w.Total>>

\* line 133: worker_options_map[label]; a later entry overwrites an equal key
OptionId(ws, label) ==
    LET hits == {j \in 1..Len(ws) : Label(ws[j]) = label}
        last == CHOOSE j \in hits : \A k \in hits : k <= j
    IN ws[last].ID

-----------------------------------------------------------------------------
(* Financial summary, lines 147-151 *)

\* pd.to_numeric(col, errors='coerce').fillna(0) on one cell
ToNumeric(cell) == IF cell = Empty THEN 0 ELSE cell[1]

RECURSIVE ColumnSum(_, _)
\* df[col].sum() after the coercion of line 148
ColumnSum(ws, col) ==
    IF ws = <<>> THEN 0
    ELSE (CASE col = "Total" -> Head(ws).Total
            [] col = "Withdrawn" -> ToNumeric(Head(ws).Withdrawn)
            [] col = "Remaining" -> ToNumeric(Head(ws).Remaining))
         + ColumnSum(Tail(ws), col)

total_sum(ws) == ColumnSum(ws, "Total")
withdrawn_sum(ws) == ColumnSum(ws, "Withdrawn")
remaining_sum(ws) == ColumnSum(ws, "Remaining")
for_workers(ws) == withdrawn_sum(ws) + remaining_sum(ws)
\* variant of for_cleanfoam: only the remaining balances are subtracted
for_cleanfoam_LessRemaining(ws) == total_sum(ws) - remaining_sum(ws)

for_cleanfoam(ws) == total_sum(ws) - for_workers(ws)

-----------------------------------------------------------------------------
(* CSV export, lines 166-168 *)

\* the digits str(float) writes after the point: at least one, no trailing 0
FracDigits(v) ==
    LET t == ((IF v < 0 THEN -v ELSE v) % 200) * 5
        d1 == t \div 100
        d2 == (t \div 10) % 10
        d3 == t % 10
    IN IF d3 # 0 THEN <<d1, d2, d3>>
       ELSE IF d2 # 0 THEN <<d1, d2>>
       ELSE <<d1>>

\* the text to_csv writes for a float: sign, whole part, digits after the point
FloatStr(v) ==
    [neg |-> v < 0,
     whole |-> (IF v < 0 THEN -v ELSE v) \div 200,
     frac |-> FracDigits(v)]

\* one cell of the CSV: <<>> for the "" of a CF entry, else the float's text
CsvCell(cell) == IF cell = Empty THEN <<>> ELSE <<FloatStr(cell[1])>>

\* line 167-168: DataFrame(workers)[columns].to_csv(index=False), row by row
to_csv(ws) ==
    [i \in 1..Len(ws) |->
        [Worker |-> ws[i].Worker,
         Total |-> CsvCell(Num(ws[i].Total)),
         Due |-> CsvCell(ws[i].Due),
         Withdrawn |-> CsvCell(ws[i].Withdrawn),
         Remaining |-> CsvCell(ws[i].Remaining),
         Note |-> ws[i].Note]]

-----------------------------------------------------------------------------
(* Session state *)

\* lines 19-30 initialize_session_state; no fee call is in progress
Init ==
    /\ workers = <<>>
    /\ worker_id_to_delete = None
    /\ show_delete_dialog = FALSE
    /\ nextId = 1
    /\ cap = MaxAdds
    /\ issued = <<>>
    /\ lastOp = "start"
    /\ lastInput = <<>>
    /\ intended = None
    /\ prevWorkers = <<>>
    /\ prevId = None
    /\ prevShow = FALSE
    /\ error = ""
    /\ fee_total = 0
    /\ fee_custom = <<>>
    /\ fee_out = <<>>

\* bookkeeping of the history variables for one run
Record(op, input, pick, message) ==
    /\ lastOp' = op
    /\ error' = message
    /\ lastInput' = input
    /\ intended' = pick
    /\ prevWorkers' = workers
    /\ prevId' = worker_id_to_delete
    /\ prevShow' = show_delete_dialog

\* variant of FreshId: the ID is the position the entry will take
FreshId_FromLength == Len(workers) + 1

\* line 104: uuid.uuid4().hex, taken as a value that was never drawn before
FreshId == nextId

\* variant of AddTo: the new entry is put in front
AddTo_Front(ws, w) == <<w>> \o ws

\* line 111: workers.append(new_worker)
AddTo(ws, w) == Append(ws, w)

\* lines 100-113: "Add Worker" submitted with the form values in
SubmitAdd(in) ==
    /\ IF NameMissing(in.name)
       THEN /\ UNCHANGED <<workers, nextId, issued>>
            /\ Record("add", <<in>>, None, NameRequired)
       ELSE IF TotalRejected(in.total_value, in.entry_type)
       THEN /\ UNCHANGED <<workers, nextId, issued>>
            /\ Record("add", <<in>>, None, TotalRequired)
       ELSE /\ nextId <= cap
            /\ workers' = AddTo(workers, NewWorker(FreshId, in))
            /\ issued' = Append(issued, FreshId)
            /\ nextId' = nextId + 1
            /\ Record("add", <<in>>, None, "")
    /\ UNCHANGED <<worker_id_to_delete, show_delete_dialog, cap>>
    /\ UNCHANGED feeVars

\* lines 133-143: entry i picked in the selector, "Delete Selected Worker" clicked
RequestDelete(i) ==
    /\ workers # <<>>
    /\ i \in 1..Len(workers)
    /\ worker_id_to_delete' = OptionId(workers, Label(workers[i]))
    /\ show_delete_dialog' = TRUE
    /\ UNCHANGED <<workers, nextId, cap, issued>>
    /\ Record("request", <<>>, workers[i].ID, "")
    /\ UNCHANGED feeVars

\* lines 68-73: "Yes, Delete" clicked in the dialog
ConfirmDelete ==
    /\ DialogOpen
    /\ workers' = WithoutId(workers, worker_id_to_delete)
    /\ worker_id_to_delete' = None
    /\ show_delete_dialog' = FALSE
    /\ UNCHANGED <<nextId, cap, issued>>
    /\ Record("confirm", <<>>, None, "")
    /\ UNCHANGED feeVars

\* variant of CancelDelete: the pending id is cleared, the dialog flag is not
CancelDelete_KeepsFlag ==
    /\ DialogOpen
    /\ worker_id_to_delete' = None
    /\ UNCHANGED <<workers, nextId, cap, issued, show_delete_dialog>>
    /\ Record("cancel", <<>>, None, "")
    /\ UNCHANGED feeVars

\* lines 75-79: "Cancel" clicked in the dialog
CancelDelete ==
    /\ DialogOpen
    /\ worker_id_to_delete' = None
    /\ show_delete_dialog' = FALSE
    /\ UNCHANGED <<workers, nextId, cap, issued>>
    /\ Record("cancel", <<>>, None, "")
    /\ UNCHANGED feeVars

\* variant of ResetAll: only the oldest entry is dropped
ResetAll_DropsOne ==
    /\ workers' = IF workers # <<>> THEN Tail(workers) ELSE workers
    /\ UNCHANGED <<worker_id_to_delete, show_delete_dialog, nextId, cap, issued>>
    /\ Record("reset", <<>>, None, "")
    /\ UNCHANGED feeVars

\* lines 161-165: "Reset All Workers" clicked
ResetAll ==
    /\ workers' = IF workers # <<>> THEN <<>> ELSE workers
    /\ UNCHANGED <<worker_id_to_delete, show_delete_dialog, nextId, cap, issued>>
    /\ Record("reset", <<>>, None, "")
    /\ UNCHANGED feeVars

Next ==
    \/ \E in \in Inputs : SubmitAdd(in)
    \/ \E i \in 1..cap : RequestDelete(i)
    \/ ConfirmDelete
    \/ CancelDelete
    \/ ResetAll

Spec == Init /\ [][Next]_vars

-----------------------------------------------------------------------------
(* Longer ledgers from fewer form values: no withdrawal, no custom due, the  *)
(* name empty or "Ana"                                                       *)

OrderInputs ==
    {in \in Inputs : /\ in.name \in {"", "Ana"}
                     /\ in.withdrawn_val = 0
                     /\ in.due_custom_val = 0}

OrderInit ==
    /\ workers = <<>>
    /\ worker_id_to_delete = None
    /\ show_delete_dialog = FALSE
    /\ nextId = 1
    /\ cap = MaxOrderAdds
    /\ issued = <<>>
    /\ lastOp = "start"
    /\ lastInput = <<>>
    /\ intended = None
    /\ prevWorkers = <<>>
    /\ prevId = None
    /\ prevShow = FALSE
    /\ error = ""
    /\ fee_total = 0
    /\ fee_custom = <<>>
    /\ fee_out = <<>>

OrderNext ==
    \/ \E in \in OrderInputs : SubmitAdd(in)
    \/ \E i \in 1..cap : RequestDelete(i)
    \/ ConfirmDelete
    \/ CancelDelete
    \/ ResetAll

OrderSpec == OrderInit /\ [][OrderNext]_vars

-----------------------------------------------------------------------------
(* Short ledgers from many totals: every rule of the fee schedule is met by  *)
(* an entry                                                                  *)

TotalsInputs ==
    [name: {"Ana"},
     total_value: {Money(0, 0), Money(50, 0), Money(95, 0), Money(95, 50),
                   Money(100, 0), Money(101, 0), Money(104, 90), Money(115, 0)},
     withdrawn_val: Withdrawns, entry_type: EntryTypes,
     due_custom_val: CustomDues, note_text: Notes]

TotalsInit ==
    /\ workers = <<>>
    /\ worker_id_to_delete = None
    /\ show_delete_dialog = FALSE
    /\ nextId = 1
    /\ cap = MaxTotalsAdds
    /\ issued = <<>>
    /\ lastOp = "start"
    /\ lastInput = <<>>
    /\ intended = None
    /\ prevWorkers = <<>>
    /\ prevId = None
    /\ prevShow = FALSE
    /\ error = ""
    /\ fee_total = 0
    /\ fee_custom = <<>>
    /\ fee_out = <<>>

TotalsNext ==
    \/ \E in \in TotalsInputs : SubmitAdd(in)
    \/ \E i \in 1..cap : RequestDelete(i)
    \/ ConfirmDelete
    \/ CancelDelete
    \/ ResetAll

TotalsSpec == TotalsInit /\ [][TotalsNext]_vars

-----------------------------------------------------------------------------
(* compute_fee on its own: one call with arguments drawn from FeeTotals and *)
(* FeeCustoms                                                               *)

\* totals 0.00, 0.50, ..., MaxFeeTotal, and some that are no multiple of 0.5
FeeTotals ==
    {h * 100 : h \in 0..(2 * MaxFeeTotal)}
        \cup {Money(104, 90), Money(95, 1), Money(94, 99), Money(105, 99),
              Money(5, 99), Money(109, 99)}

\* None, or a number
FeeCustoms == {<<>>, Num(-Money(1, 0)), Num(0), Num(Money(0, 50)), Num(Money(999, 0))}

FeeInit ==
    /\ workers = <<>>
    /\ worker_id_to_delete = None
    /\ show_delete_dialog = FALSE
    /\ nextId = 1
    /\ cap = MaxAdds
    /\ issued = <<>>
    /\ lastOp = "start"
    /\ lastInput = <<>>
    /\ intended = None
    /\ prevWorkers = <<>>
    /\ prevId = None
    /\ prevShow = FALSE
    /\ error = ""
    /\ fee_total \in FeeTotals
    /\ fee_custom \in FeeCustoms
    /\ fee_out = <<>>

\* lines 41-51: the call returns
CallComputeFee ==
    /\ fee_out = <<>>
    /\ fee_out' = Num(compute_fee(fee_total, fee_custom))
    /\ UNCHANGED <<fee_total, fee_custom, session, history>>

FeeNext == CallComputeFee

FeeSpec == FeeInit /\ [][FeeNext]_vars

-----------------------------------------------------------------------------
(* Properties *)

\* the workflow is Idle: no pending id, dialog flag cleared
Idle == worker_id_to_delete = None /\ ~show_delete_dialog

\* ws is old with the entry at position i taken out, the rest as it was
RemovedAt(old, i, ws) ==
    /\ Len(ws) = Len(old) - 1
    /\ \A j \in 1..Len(ws) : ws[j] = old[IF j < i THEN j ELSE j + 1]

\* C1: a delete request leaves the ledger as it is and holds the id x of a live
\* entry; the confirmation that follows leaves the ledger from before with
\* exactly the entry whose id is x removed, every other entry unmodified and
\* in the same order, and the workflow Idle.
C1_ConfirmRemovesExactlyX ==
    /\ lastOp = "request" =>
          /\ workers = prevWorkers
          /\ show_delete_dialog
          /\ \E i \in 1..Len(workers) : workers[i].ID = worker_id_to_delete
    /\ lastOp = "confirm" =>
          /\ Idle
          /\ \E i \in 1..Len(prevWorkers) :
                /\ prevWorkers[i].ID = prevId
                /\ RemovedAt(prevWorkers, i, workers)

\* a confirmation has removed the first of two entries with the same name
C1_Witness ==
    /\ lastOp = "confirm"
    /\ prevShow
    /\ Len(prevWorkers) = 2
    /\ prevWorkers[1].ID = prevId
    /\ prevWorkers[1].Worker = prevWorkers[2].Worker
    /\ workers = <<prevWorkers[2]>>

\* C2: a delete request followed by a cancel leaves the ledger identical to
\* the ledger before the request (same entries, order and field values) and
\* the workflow Idle.
C2_CancelKeepsLedger ==
    /\ lastOp = "request" => workers = prevWorkers
    /\ lastOp = "cancel" => workers = prevWorkers /\ Idle

\* a pending deletion of one of two entries has been cancelled
C2_Witness ==
    /\ lastOp = "cancel"
    /\ prevShow
    /\ Len(workers) = 2
    /\ \E i \in 1..2 : workers[i].ID = prevId

\* C3: no reachable state holds a pending identifier that matches no live
\* entry; the workflow is reset to Idle when the identifier has vanished.
C3_NoStalePending ==
    (show_delete_dialog /\ worker_id_to_delete # None) =>
        \E i \in 1..Len(workers) : workers[i].ID = worker_id_to_delete

\* the fee table of the fee schedule, total -> fee
FeeTable ==
    {<<Money(80, 0), Money(20, 0)>>, <<Money(90, 0), Money(20, 0)>>,
     <<Money(95, 0), Money(22, 50)>>, <<Money(100, 0), Money(25, 0)>>,
     <<Money(105, 0), Money(27, 50)>>, <<Money(110, 0), Money(25, 0)>>}

\* k is total truncated to an integer
TruncatesTo(total, k) == Money(k, 0) <= total /\ total < Money(k + 1, 0)

\* the fee the schedule gives for total and customDue (<<>> for null)
ScheduledFee(total, customDue, fee) ==
    IF customDue # <<>> /\ customDue[1] > 0
    THEN fee = customDue[1]
    ELSE IF \E row \in FeeTable : row[1] = total
    THEN \E row \in FeeTable : row[1] = total /\ row[2] = fee
    ELSE IF \E k \in 0..(MaxFeeTotal + 1) : TruncatesTo(total, k) /\ k % 10 = 5
    THEN fee = Money(32, 50)
    ELSE fee = Money(30, 0)

\* C4: for every total >= 0 and every customDue, computeFee returns customDue
\* if it is provided and > 0; otherwise the table value if total is exactly
\* 80, 90, 95, 100, 105 or 110; otherwise 32.5 if total truncated to an
\* integer is 5 mod 10 (95.5 and 115 give 32.5); otherwise 30 (104.9 and 101
\* give 30).
C4_FeeSchedule ==
    fee_out # <<>> =>
        /\ ScheduledFee(fee_total, fee_custom, fee_out[1])
        /\ (fee_custom = <<>> /\ fee_total \in {Money(95, 50), Money(115, 0)})
              => fee_out[1] = Money(32, 50)
        /\ (fee_custom = <<>> /\ fee_total \in {Money(104, 90), Money(101, 0)})
              => fee_out[1] = Money(30, 0)

\* compute_fee has returned for total 104.9 without a custom due
C4_Witness ==
    /\ fee_out # <<>>
    /\ fee_total = Money(104, 90)
    /\ fee_custom = <<>>

\* C5: every Standard entry of the ledger has remaining = total/2 - withdrawn
\* - due exactly, also when that is negative.
C5_RemainingFormula ==
    \A i \in 1..Len(workers) :
        workers[i].EntryType = "Standard" =>
            /\ workers[i].Remaining # Empty
            /\ workers[i].Withdrawn # Empty
            /\ workers[i].Due # Empty
            /\ 2 * workers[i].Remaining[1] =
                  workers[i].Total - 2 * workers[i].Withdrawn[1]
                                   - 2 * workers[i].Due[1]

\* the ledger holds a Standard entry whose remaining balance is negative
C5_Witness ==
    \E i \in 1..Len(workers) :
        /\ workers[i].EntryType = "Standard"
        /\ workers[i].Remaining[1] < 0

\* C6: every CF entry of the ledger has empty due, withdrawn and remaining
\* fields, whatever withdrawn and custom-due values its input carried.
C6_CFFieldsEmpty ==
    \A i \in 1..Len(workers) :
        workers[i].EntryType = "CF" =>
            /\ workers[i].Due = Empty
            /\ workers[i].Withdrawn = Empty
            /\ workers[i].Remaining = Empty

\* a CF entry has been added from an input with withdrawn > 0 and custom due > 0
C6_Witness ==
    /\ lastOp = "add"
    /\ lastInput[1].entry_type = "CF"
    /\ lastInput[1].withdrawn_val > 0
    /\ lastInput[1].due_custom_val > 0
    /\ Len(workers) = Len(prevWorkers) + 1
    /\ workers[Len(workers)].EntryType = "CF"

RECURSIVE SumOver(_, _)
\* the sum of f[i] over the indices in S
SumOver(f, S) ==
    IF S = {} THEN 0
    ELSE LET i == CHOOSE x \in S : TRUE IN f[i] + SumOver(f, S \ {i})

\* the Standard entries of ws, by position
StandardIn(ws) == {i \in 1..Len(ws) : ws[i].EntryType = "Standard"}

\* C7: the summary satisfies forWorkers + forBusiness = totalSum, where
\* totalSum sums total over all entries and withdrawnSum and remainingSum
\* count the empty fields of CF entries as 0.
C7_SummarySplit ==
    workers # <<>> =>
        /\ for_workers(workers) + for_cleanfoam(workers) = total_sum(workers)
        /\ total_sum(workers) =
              SumOver([i \in 1..Len(workers) |-> workers[i].Total],
                      1..Len(workers))
        /\ withdrawn_sum(workers) =
              SumOver([i \in StandardIn(workers) |-> workers[i].Withdrawn[1]],
                      StandardIn(workers))
        /\ remaining_sum(workers) =
              SumOver([i \in StandardIn(workers) |-> workers[i].Remaining[1]],
                      StandardIn(workers))

\* the ledger holds a CF entry with a total and a Standard entry with a withdrawal
C7_Witness ==
    /\ \E i \in 1..Len(workers) :
          workers[i].EntryType = "CF" /\ workers[i].Total > 0
    /\ \E i \in 1..Len(workers) :
          workers[i].EntryType = "Standard" /\ workers[i].Withdrawn[1] > 0

\* the input fails validation: empty name, or Standard entry with total <= 0
FailsValidation(in) ==
    in.name = "" \/ (in.entry_type = "Standard" /\ in.total_value <= 0)

\* C8: an add attempt that fails validation appends no entry and modifies no
\* existing entry and not the deletion workflow state.
C8_RejectedAddChangesNothing ==
    (lastOp = "add" /\ FailsValidation(lastInput[1])) =>
        /\ workers = prevWorkers
        /\ worker_id_to_delete = prevId
        /\ show_delete_dialog = prevShow
        /\ error # ""

\* a Standard input with total 0 was refused while a deletion was pending
C8_Witness ==
    /\ lastOp = "add"
    /\ lastInput[1].name # ""
    /\ lastInput[1].entry_type = "Standard"
    /\ lastInput[1].total_value = 0
    /\ workers # <<>>
    /\ show_delete_dialog

\* C9: an add attempt whose name is empty or blank is rejected, so every
\* entry of the ledger has a non-empty, non-blank worker name.
C9_NoBlankName ==
    /\ \A i \in 1..Len(workers) : workers[i].Worker \notin {"", " "}
    /\ (lastOp = "add" /\ lastInput[1].name \in {"", " "}) =>
          workers = prevWorkers /\ error = NameRequired

\* C10: every Standard entry of the ledger has total > 0, a Standard input
\* with total <= 0 is rejected with NonPositiveTotal, and a CF input with a
\* non-empty name and total = 0 is accepted and appended.
C10_PositiveTotalStandardOnly ==
    /\ \A i \in 1..Len(workers) :
          workers[i].EntryType = "Standard" => workers[i].Total > 0
    /\ (lastOp = "add" /\ lastInput[1].name # ""
           /\ lastInput[1].entry_type = "Standard"
           /\ lastInput[1].total_value <= 0) =>
          workers = prevWorkers /\ error = TotalRequired
    /\ (lastOp = "add" /\ lastInput[1].name # ""
           /\ lastInput[1].entry_type = "CF"
           /\ lastInput[1].total_value = 0) =>
          /\ error = ""
          /\ Len(workers) = Len(prevWorkers) + 1
          /\ SubSeq(workers, 1, Len(prevWorkers)) = prevWorkers
          /\ workers[Len(workers)].EntryType = "CF"
          /\ workers[Len(workers)].Total = 0
          /\ workers[Len(workers)].Worker = lastInput[1].name

\* a CF entry with total 0 is in the ledger next to a Standard entry
C10_Witness ==
    /\ lastOp = "add"
    /\ lastInput[1].entry_type = "CF"
    /\ lastInput[1].total_value = 0
    /\ Len(workers) = 2
    /\ workers[1].EntryType = "Standard"
    /\ workers[2].EntryType = "CF" /\ workers[2].Total = 0

\* the IDs of the entries of ws
IdsOf(ws) == {ws[i].ID : i \in 1..Len(ws)}

\* C11: the ids of the live entries are pairwise distinct, and an id given
\* to a new entry differs from every id assigned before in the session, also
\* from the ids of entries that were deleted or cleared by reset.
C11_IdsNeverReused ==
    /\ \A i, j \in 1..Len(workers) :
          i # j => workers[i].ID # workers[j].ID
    /\ \A i, j \in 1..Len(issued) : i # j => issued[i] # issued[j]
    /\ \A i \in 1..Len(workers) :
          \E k \in 1..Len(issued) : issued[k] = workers[i].ID
    /\ (lastOp = "add" /\ error = "") =>
          /\ workers # <<>>
          /\ workers[Len(workers)].ID \notin IdsOf(prevWorkers)

\* an entry was added after the only entry before it had been removed
C11_Witness ==
    /\ lastOp = "add"
    /\ error = ""
    /\ prevWorkers = <<>>
    /\ Len(issued) = 2
    /\ Len(workers) = 1

\* the position of id in the order of assignment
AssignedAt(id) == CHOOSE k \in 1..Len(issued) : issued[k] = id

\* C12: the ledger keeps insertion order: add puts the new entry after all
\* existing entries, and a removal or a cancelled deletion never changes the
\* relative order of the entries that stay.
C12_InsertionOrder ==
    /\ \A i, j \in 1..Len(workers) :
          i < j => AssignedAt(workers[i].ID) < AssignedAt(workers[j].ID)
    /\ (lastOp = "add" /\ error = "") =>
          /\ Len(workers) = Len(prevWorkers) + 1
          /\ SubSeq(workers, 1, Len(prevWorkers)) = prevWorkers
    /\ lastOp = "confirm" =>
          \A i, j \in 1..Len(workers) :
              i < j => \E a, b \in 1..Len(prevWorkers) :
                          /\ a < b
                          /\ prevWorkers[a] = workers[i]
                          /\ prevWorkers[b] = workers[j]
    /\ lastOp = "cancel" => workers = prevWorkers

\* the middle one of three entries has been removed
C12_Witness ==
    /\ lastOp = "confirm"
    /\ Len(prevWorkers) = 3
    /\ prevWorkers[2].ID = prevId
    /\ workers = <<prevWorkers[1], prevWorkers[3]>>

\* C13: reset on any ledger yields the empty sequence in one step, and reset
\* on an already empty ledger leaves it empty without error.
C13_ResetEmpties ==
    lastOp = "reset" => workers = <<>> /\ error = ""

\* a ledger of two entries has been reset
C13_Witness ==
    /\ lastOp = "reset"
    /\ Len(prevWorkers) = 2
    /\ workers = <<>>

\* C14: remove(id) is idempotent: for any ledger and any id, present or
\* absent, removing the id twice yields the same ledger as removing it once,
\* and removing an absent id leaves the ledger unchanged.
C14_RemoveIdempotent ==
    \A id \in 0..(cap + 1) :
        /\ WithoutId(WithoutId(workers, id), id) = WithoutId(workers, id)
        /\ id \notin IdsOf(workers) => WithoutId(workers, id) = workers
        /\ id \in IdsOf(workers) => WithoutId(workers, id) # workers

\* an entry has been removed from a ledger of two and removing it again
\* changes nothing
C14_Witness ==
    /\ lastOp = "confirm"
    /\ Len(prevWorkers) = 2
    /\ Len(workers) = 1
    /\ prevId \notin IdsOf(workers)
    /\ WithoutId(workers, prevId) = workers

\* v is a whole number
IsWhole(v) == v % 200 = 0

\* the cell is rendered by the rule: no fractional part for a whole number,
\* exactly two decimals otherwise
RenderedByRule(v, text) ==
    IF IsWhole(v) THEN text.frac = <<>> ELSE Len(text.frac) = 2

\* C15: in the exported CSV every numeric cell whose value is a whole number
\* is rendered without a fractional part (100, not 100.0) and every other
\* numeric cell with exactly two decimal places, for every entry of every
\* ledger.
C15_CsvRendering ==
    \A i \in 1..Len(workers) :
        /\ RenderedByRule(workers[i].Total, to_csv(workers)[i].Total[1])
        /\ \A cell \in {"Due", "Withdrawn", "Remaining"} :
              LET value == CASE cell = "Due" -> workers[i].Due
                             [] cell = "Withdrawn" -> workers[i].Withdrawn
                             [] cell = "Remaining" -> workers[i].Remaining
                  text == CASE cell = "Due" -> to_csv(workers)[i].Due
                            [] cell = "Withdrawn" -> to_csv(workers)[i].Withdrawn
                            [] cell = "Remaining" -> to_csv(workers)[i].Remaining
              IN value # Empty =>
                    text # <<>> /\ RenderedByRule(value[1], text[1])

\* C16: for every Standard entry created by add, due is computeFee(total,
\* null) (table, modulo or default fee) if the custom-due input is 0 or
\* absent, and due is c whatever the total if the custom-due input is c > 0.
C16_DueFromCustomOrSchedule ==
    (lastOp = "add" /\ error = "" /\ lastInput[1].entry_type = "Standard") =>
        LET new == workers[Len(workers)]
            c == lastInput[1].due_custom_val
        IN /\ new.Due # Empty
           /\ new.Total = lastInput[1].total_value
           /\ IF c > 0
              THEN new.Due[1] = c
              ELSE ScheduledFee(new.Total, <<>>, new.Due[1])

\* a Standard entry of total 115 was added without a custom due: fee 32.5
C16_Witness ==
    /\ lastOp = "add"
    /\ error = ""
    /\ lastInput[1].entry_type = "Standard"
    /\ lastInput[1].due_custom_val = 0
    /\ lastInput[1].total_value = Money(115, 0)
    /\ workers[Len(workers)].Due = Num(Money(32, 50))

\* C17: show_delete_dialog is True exactly when worker_id_to_delete is not
\* None, and a delete request made while one is pending replaces the pending
\* id: the one id held is that of the new request.
C17_FlagsAgree ==
    /\ show_delete_dialog <=> worker_id_to_delete # None
    /\ lastOp = "request" =>
          /\ worker_id_to_delete \in IdsOf(workers)
          /\ \E i \in 1..Len(workers) :
                /\ workers[i].ID = worker_id_to_delete
                /\ \E j \in 1..Len(workers) :
                      /\ workers[j].ID = intended
                      /\ workers[j].Worker = workers[i].Worker
                      /\ workers[j].Total = workers[i].Total

\* a second request has replaced the id of a pending one
C17_Witness ==
    /\ lastOp = "request"
    /\ prevShow
    /\ prevId # None
    /\ prevId # worker_id_to_delete
    /\ prevId \in IdsOf(workers)

\* C18: selecting entry e and clicking delete puts e's own id in
\* PendingConfirmation, also when two live entries have the same worker name
\* and the same total.
C18_PendingIsSelected ==
    lastOp = "request" => worker_id_to_delete = intended

\* twice the share of the business that the entries themselves give:
\* total/2 + due for a Standard entry, the whole total for a CF entry
TwiceBusinessShare(w) ==
    IF w.EntryType = "Standard" THEN w.Total + 2 * w.Due[1] ELSE 2 * w.Total

\* C19: forBusiness is the sum over Standard entries of total/2 + due plus
\* the sum over CF entries of total.
C19_BusinessShare ==
    workers # <<>> =>
        2 * for_cleanfoam(workers) =
            SumOver([i \in 1..Len(workers) |-> TwiceBusinessShare(workers[i])],
                    1..Len(workers))

\* the ledger holds a Standard entry with a custom due and a withdrawal, and
\* a CF entry with a total
C19_Witness ==
    /\ Len(workers) = 2
    /\ \E i \in 1..2 :
          /\ workers[i].EntryType = "Standard"
          /\ workers[i].Due = Num(Money(5, 0))
          /\ workers[i].Withdrawn[1] > 0
    /\ \E i \in 1..2 :
          workers[i].EntryType = "CF" /\ workers[i].Total > 0

====
